---- MODULE Spec2Model ----
(***************************************************************************)
(* pdf_converter: the ZIP-backed conversion cache (replace_in_zip,         *)
(* _ensure_zip) and the batch orchestrators (create_markdown_from_column,  *)
(* create_text_from_column) over it, with the download and the isolated    *)
(* conversion worker of each row.                                          *)
(*                                                                         *)
(* Strings are sequences of one-character strings; bytes are sequences of  *)
(* numbers.  A pandas NaN/None cell is the value NaN.                      *)
(***************************************************************************)
EXTENDS Integers, Sequences, FiniteSets, TLC

\* ------------------------------------------------------------------ bounds

\* rows of the input table
MaxRows == 2
\* consecutive runs of the batch over the same table
MaxRuns == 2
\* direct replace_in_zip calls in the archive-only specification
MaxCalls == 3

\* ----------------------------------------------------------------- strings

Letters ==
  {"a","b","c","d","e","f","g","h","i","j","k","l","m","n","o","p","q","r",
   "s","t","u","v","w","x","y","z",
   "A","B","C","D","E","F","G","H","I","J","K","L","M","N","O","P","Q","R",
   "S","T","U","V","W","X","Y","Z"}

Digits == {"0","1","2","3","4","5","6","7","8","9"}

Whitespace == {" ", "\n", "\t"}

NaN == <<"NaN">>

\* re.sub(r"[^a-zA-Z0-9_\-.]", "_", name): every character outside the class
\* becomes "_"
safe_filename(name) ==
  [i \in 1..Len(name) |->
     IF name[i] \in Letters \cup Digits \cup {"_", "-", "."}
     THEN name[i] ELSE "_"]

\* series.astype(str).map(safe_filename) + suffix, for one cell
_build_filenames(cell, suffix) == safe_filename(cell) \o suffix

\* str.lower() on the letters the method names use
Lower(s) ==
  [i \in 1..Len(s) |->
     CASE s[i] = "D" -> "d"
       [] s[i] = "P" -> "p"
       [] s[i] = "S" -> "s"
       [] OTHER -> s[i]]

RECURSIVE LStrip(_)
LStrip(s) ==
  IF s # <<>> /\ Head(s) \in Whitespace THEN LStrip(Tail(s)) ELSE s

RECURSIVE RStrip(_)
RStrip(s) ==
  IF s # <<>> /\ s[Len(s)] \in Whitespace
  THEN RStrip(SubSeq(s, 1, Len(s) - 1)) ELSE s

\* str.strip()
Strip(s) == RStrip(LStrip(s))

\* str.encode("utf-8") on the characters texts are made of (all ASCII)
Utf8Byte(c) ==
  CASE c = "x" -> 120
    [] c = "y" -> 121
    [] c = " " -> 32
    [] c = "\n" -> 10
    [] OTHER -> 63

utf8_encode(s) == [i \in 1..Len(s) |-> Utf8Byte(s[i])]

\* ------------------------------------------------------------------- files

\* Path(...) as stem and last suffix
zip_path == [stem |-> "pdfs", suffix |-> ".zip"]

\* Path.with_suffix
with_suffix(p, s) == [stem |-> p.stem, suffix |-> s]

\* a mutant of temp_zip_path: the rebuilt archive is written in place
temp_zip_path_inplace(p) == with_suffix(p, ".zip")

\* replace_in_zip: temp_zip_path = zip_path.with_suffix(".tmp.zip")
temp_zip_path(p) == with_suffix(p, ".tmp.zip")

Paths == {zip_path, with_suffix(zip_path, ".tmp.zip")}

\* a ZIP file on disk: its entries in order, and whether its central
\* directory was written (ZipFile.close)
NoFile == [exists |-> FALSE, entries |-> <<>>, closed |-> FALSE]

EmptyZip == [exists |-> TRUE, entries |-> <<>>, closed |-> TRUE]

\* zf.namelist() as a set
NameSet(entries) == {entries[i].name : i \in 1..Len(entries)}

\* zf_in.read(name) / getinfo(name): the last entry of that name
ReadEntry(entries, name) ==
  LET last == CHOOSE i \in 1..Len(entries) :
                /\ entries[i].name = name
                /\ \A j \in (i + 1)..Len(entries) : entries[j].name # name
  IN entries[last].data

\* ------------------------------------------------------------------ inputs

pymupdf == <<"p","y","m","u","p","d","f">>

docling_serve == <<"d","o","c","l","i","n","g","-","s","e","r","v","e">>

Docling_Serve == <<"D","o","c","l","i","n","g","-","S","e","r","v","e">>

pymupdf4llm == <<"p","y","m","u","p","d","f","4","l","l","m">>

docling == <<"d","o","c","l","i","n","g">>

pdfplumber == <<"p","d","f","p","l","u","m","b","e","r">>

\* which orchestrator runs, and with which method string
Jobs ==
  {[kind |-> "md", method |-> pymupdf],
   [kind |-> "md", method |-> Docling_Serve],
   [kind |-> "md", method |-> pymupdf4llm],
   [kind |-> "txt", method |-> pdfplumber]}

\* the cells a row is drawn from: the naming key and the URL
RowChoices ==
  {[name |-> NaN, url |-> <<"u">>],
   [name |-> <<>>, url |-> <<"u">>],
   [name |-> <<"a">>, url |-> NaN],
   [name |-> <<"a">>, url |-> <<>>],
   [name |-> <<"a">>, url |-> <<"u">>],
   [name |-> <<"a", "/">>, url |-> <<"u">>],
   [name |-> <<"a", "_">>, url |-> <<"u">>]}

Tables == UNION {[1..n -> RowChoices] : n \in 1..MaxRows}

\* what the extraction library or the remote service makes of a PDF
LibTexts == {<<>>, <<"x">>, <<"y">>}

LibOutcomes ==
  {[raises |-> TRUE, text |-> <<>>]}
    \cup {[raises |-> FALSE, text |-> t] : t \in LibTexts}

\* os.getenv("DOCLING_HTTP_CLIENT") / os.getenv("DOCLING_API_KEY") are set
Envs == [base_url : BOOLEAN, api_key : BOOLEAN]

NoEnv == [base_url |-> FALSE, api_key |-> FALSE]

\* ------------------------------------------------------- the row selection

\* suffix = f"_{method}.md" / f"_{method}.txt"
Suffix(j) ==
  <<"_">> \o j.method
    \o (IF j.kind = "md" THEN <<".", "m", "d">> ELSE <<".", "t", "x", "t">>)

RowIndices(t) == [i \in 1..Len(t) |-> i]

\* df[[name_column, url_column]].dropna()
dropna(t, rows) ==
  SelectSeq(rows, LAMBDA i : t[i].name # NaN /\ t[i].url # NaN)

\* a mutant of url_nonempty: rows with an empty URL are kept
url_nonempty_all(t, rows) == rows

\* valid[valid[url_column].astype(str).str.len() > 0]
url_nonempty(t, rows) == SelectSeq(rows, LAMBDA i : Len(t[i].url) > 0)

\* the __filename column of one row
Filename(t, j, i) == _build_filenames(t[i].name, Suffix(j))

\* a mutant of not_existing: rows whose target exists are kept
not_existing_all(t, j, rows, names) == rows

\* valid[~valid["__filename"].isin(existing)]
not_existing(t, j, rows, names) ==
  SelectSeq(rows, LAMBDA i : Filename(t, j, i) \notin names)

\* a mutant of drop_duplicates: no de-duplication
drop_duplicates_none(t, j, rows) == rows

\* a mutant of drop_duplicates: keep="last"
drop_duplicates_last(t, j, rows) ==
  SelectSeq(rows, LAMBDA i :
    \A k \in 1..Len(rows) :
      rows[k] > i => Filename(t, j, rows[k]) # Filename(t, j, i))

\* valid.drop_duplicates(subset="__filename", keep="first")
drop_duplicates(t, j, rows) ==
  SelectSeq(rows, LAMBDA i :
    \A k \in 1..Len(rows) :
      rows[k] < i => Filename(t, j, rows[k]) # Filename(t, j, i))

\* a mutant of SelectRows: replace_all is ignored, existing targets are skipped
SelectRows_never_replace(t, j, names, ra) ==
  drop_duplicates(t, j,
    not_existing(t, j, url_nonempty(t, dropna(t, RowIndices(t))), names))

\* the rows the loop iterates, in input order
SelectRows(t, j, names, ra) ==
  LET base == url_nonempty(t, dropna(t, RowIndices(t)))
      kept == IF ~ra THEN not_existing(t, j, base, names) ELSE base
  IN drop_duplicates(t, j, kept)

\* ------------------------------------------------------------- the worker

\* a mutant of docling_serve_conversion: the configuration is checked after
\* the request was sent
docling_serve_conversion_late(env, o) ==
  [raised |-> ~env.base_url \/ ~env.api_key,
   md |-> IF o.raises \/ ~env.base_url \/ ~env.api_key THEN <<>> ELSE o.text,
   posted |-> TRUE]

\* Converter.docling_serve_conversion: the configuration is checked before
\* the request is built; every failure of the request returns ""
docling_serve_conversion(env, o) ==
  IF ~env.base_url \/ ~env.api_key
  THEN [raised |-> TRUE, md |-> <<>>, posted |-> FALSE]
  ELSE [raised |-> FALSE, md |-> IF o.raises THEN <<>> ELSE o.text,
        posted |-> TRUE]

\* a mutant of pymupdf4llm_conversion: the handler returns its message as
\* the converted text
pymupdf4llm_conversion_message(o) ==
  [raised |-> FALSE, md |-> IF o.raises THEN <<"x">> ELSE o.text,
   posted |-> FALSE]

\* Converter.pymupdf4llm_conversion / docling_conversion: the handler calls
\* the logging module itself, which raises TypeError out of the handler
pymupdf4llm_conversion(o) ==
  IF o.raises
  THEN [raised |-> TRUE, md |-> <<>>, posted |-> FALSE]
  ELSE [raised |-> FALSE, md |-> o.text, posted |-> FALSE]

\* Converter.pymupdf_conversion: no handler
pymupdf_conversion(o) ==
  [raised |-> o.raises, md |-> IF o.raises THEN <<>> ELSE o.text,
   posted |-> FALSE]

\* Converter.convert: dispatch on lib.lower()
Converter_convert(lib, env, o) ==
  LET l == Lower(lib)
  IN CASE l = docling -> pymupdf4llm_conversion(o)
       [] l = docling_serve -> docling_serve_conversion(env, o)
       [] l = pymupdf4llm -> pymupdf4llm_conversion(o)
       [] OTHER -> pymupdf_conversion(o)

\* TextConverter.convert: pdfplumber_text or pymupdf_text, no handler
TextConverter_convert(lib, o) ==
  [raised |-> o.raises, md |-> IF o.raises THEN <<>> ELSE o.text,
   posted |-> FALSE]

\* the worker script: print(f.read()) and exit 0, or exit 1 on any exception
worker_main(c) ==
  IF c.raised
  THEN [rc |-> 1, stdout |-> <<>>, posted |-> c.posted]
  ELSE [rc |-> 0, stdout |-> c.md \o <<"\n">>, posted |-> c.posted]

\* how subprocess.run ends
SubprocessEnds == {"completed", "timeout", "oserror"}

\* convert_pdf_to_md / convert_pdf_to_txt after the download: result.stdout
\* on exit status 0, "" otherwise
subprocess_result(ends, w) ==
  IF ends = "completed" /\ w.rc = 0 THEN w.stdout ELSE <<>>

\* -------------------------------------------------------------------- state

VARIABLES
  disk,        \* the files at zip_path and at temp_zip_path
  pdf,         \* temp.pdf: the URL last downloaded into it, <<>> before any
  folder,      \* the directory unzip_to_folder extracts to
  df,          \* the input table
  job,         \* the orchestrator called, and its method string
  environ,     \* the process environment: which DOCLING_* variables are set
  pc,          \* where the process is
  replace_all, \* the running batch's replace_all
  existing,    \* the running batch's in-memory name set
  valid,       \* the rows the loop iterates (row numbers of df)
  pos,         \* the loop's position in valid
  markdown,    \* what convert_pdf_to_md / convert_pdf_to_txt returned
  filename,    \* replace_in_zip's filename argument
  content,     \* replace_in_zip's content argument
  zf_in,       \* the entries of the archive opened for reading
  wi,          \* the copy loop's position in zf_in.infolist()
  runs,        \* batches started so far
  calls,       \* direct replace_in_zip calls started so far
  fetched,     \* per row: downloads started in this batch
  converted,   \* per row: workers started in this batch
  written,     \* per row: replace_in_zip calls started in this batch
  outcome,     \* per row: how its download and conversion ended
  stored,      \* per row: replace_in_zip calls that returned in this batch
  produced,    \* per row: the bytes this batch handed to the archive
  startEntries,\* the archive's entries when this batch loaded the name set
  history,     \* per finished batch: its replace_all and the archive it left
  pre,         \* the archive's entries when the running write began
  stale,       \* the temporary archive a direct replace_in_zip call found
  lastWrite,   \* per filename: the bytes of its latest successful write
  posted,      \* the worker of this row sent its HTTP request
  workerRc,    \* the exit status of the worker of this row (-1: none)
  aborted      \* an exception left the batch

diskVars == <<disk, pdf, folder>>

inputVars == <<df, job, environ>>

runVars == <<replace_all, existing, valid, pos>>

rowVars == <<markdown, posted, workerRc>>

callVars == <<filename, content, zf_in, wi, pre, stale>>

countVars == <<fetched, converted, written, outcome, stored, produced>>

histVars == <<runs, calls, startEntries, history, lastWrite, aborted>>

vars ==
  <<disk, pdf, folder, df, job, environ, pc, replace_all, existing, valid, pos,
    markdown, filename, content, zf_in, wi, runs, calls, fetched, converted,
    written, outcome, stored, produced, startEntries, history, pre, lastWrite,
    posted, workerRc, aborted, stale>>

NoBytes == [str |-> FALSE, val |-> <<>>]

\* the state before the first call, for a given table and job
Start(t, j, e) ==
  /\ environ = e
  /\ disk = [p \in Paths |-> NoFile]
  /\ pdf = <<>>
  /\ folder = {}
  /\ df = t
  /\ job = j
  /\ pc = "idle"
  /\ replace_all = FALSE
  /\ existing = {}
  /\ valid = <<>>
  /\ pos = 1
  /\ markdown = <<>>
  /\ filename = <<>>
  /\ content = NoBytes
  /\ zf_in = <<>>
  /\ wi = 1
  /\ runs = 0
  /\ calls = 0
  /\ fetched = [i \in 1..Len(t) |-> 0]
  /\ converted = [i \in 1..Len(t) |-> 0]
  /\ written = [i \in 1..Len(t) |-> 0]
  /\ outcome = [i \in 1..Len(t) |-> "none"]
  /\ stored = [i \in 1..Len(t) |-> 0]
  /\ produced = [i \in 1..Len(t) |-> <<>>]
  /\ startEntries = <<>>
  /\ history = <<>>
  /\ pre = <<>>
  /\ stale = NoFile
  /\ lastWrite = {}
  /\ posted = FALSE
  /\ workerRc = -1
  /\ aborted = FALSE

\* the variables only docling-serve reads are left unset for the other methods
EnvsOf(j) == IF Lower(j.method) = docling_serve THEN Envs ELSE {NoEnv}

Init == \E t \in Tables, j \in Jobs : \E e \in EnvsOf(j) : Start(t, j, e)

\* ------------------------------------------------------------ _ensure_zip

\* _ensure_zip: the file after the call
ensure_zip_file(f) == IF f.exists THEN f ELSE EmptyZip

\* _ensure_zip: the returned name set
ensure_zip_names(f) == IF f.exists THEN NameSet(f.entries) ELSE {}

\* --------------------------------------------------------- replace_in_zip

WritePcs == {"w_open", "w_copy", "w_close", "w_rename"}

\* the frame of replace_in_zip is gone: it returned, raised or died
NoCall ==
  /\ filename' = <<>>
  /\ content' = NoBytes
  /\ zf_in' = <<>>
  /\ wi' = 1
  /\ pre' = <<>>
  /\ stale' = NoFile

\* the call: replace_in_zip(zip_path, name, data)
Call(name, data) ==
  /\ filename' = name
  /\ content' = data
  /\ zf_in' = <<>>
  /\ wi' = 1
  /\ pre' = disk[zip_path].entries
  /\ pc' = "w_open"

\* a mutant of Open: the temporary archive is opened without truncating it
Open_keep ==
  /\ pc = "w_open"
  /\ disk[zip_path].exists /\ disk[zip_path].closed
  /\ zf_in' = disk[zip_path].entries
  /\ wi' = 1
  /\ disk' = [disk EXCEPT ![temp_zip_path(zip_path)] =
                [exists |-> TRUE, entries |-> @.entries, closed |-> FALSE]]
  /\ pc' = "w_copy"
  /\ UNCHANGED <<pdf, folder, inputVars, runVars, rowVars, filename, content,
                 pre, stale, countVars, histVars>>

\* the with statement is entered: the archive is opened for reading, the
\* temporary archive is created or truncated
Open ==
  /\ pc = "w_open"
  /\ disk[zip_path].exists /\ disk[zip_path].closed
  /\ zf_in' = disk[zip_path].entries
  /\ wi' = 1
  /\ disk' = [disk EXCEPT ![temp_zip_path(zip_path)] =
                [exists |-> TRUE, entries |-> <<>>, closed |-> FALSE]]
  /\ pc' = "w_copy"
  /\ UNCHANGED <<pdf, folder, inputVars, runVars, rowVars, filename, content,
                 pre, stale, countVars, histVars>>

\* a mutant of copy_item: the entry of the same name is copied too
copy_item_unfiltered(out, item, name) == Append(out, item)

\* a mutant of copy_item: nothing is copied
copy_item_dropped(out, item, name) == out

\* one turn of the copy loop: writestr(item, zf_in.read(item.filename))
\* unless item.filename = filename
copy_item(out, item, name) ==
  IF item.name # name
  THEN Append(out, [name |-> item.name,
                    data |-> ReadEntry(zf_in, item.name)])
  ELSE out

CopyItem ==
  /\ pc = "w_copy"
  /\ wi <= Len(zf_in)
  /\ disk' = [disk EXCEPT ![temp_zip_path(zip_path)].entries =
                copy_item(@, zf_in[wi], filename)]
  /\ wi' = wi + 1
  /\ UNCHANGED <<pdf, folder, inputVars, pc, runVars, rowVars, filename,
                 content, zf_in, pre, stale, countVars, histVars>>

\* ZipFile.writestr: a str is encoded as UTF-8, bytes are stored as given
writestr_data(c) == IF c.str THEN utf8_encode(c.val) ELSE c.val

\* zf_out.writestr(filename, content)
WriteNew ==
  /\ pc = "w_copy"
  /\ wi > Len(zf_in)
  /\ disk' = [disk EXCEPT ![temp_zip_path(zip_path)].entries =
                Append(@, [name |-> filename,
                           data |-> writestr_data(content)])]
  /\ pc' = "w_close"
  /\ UNCHANGED <<pdf, folder, inputVars, runVars, rowVars, callVars,
                 countVars, histVars>>

\* the with statement is left: both archives are closed
Close ==
  /\ pc = "w_close"
  /\ disk' = [disk EXCEPT ![temp_zip_path(zip_path)].closed = TRUE]
  /\ pc' = "w_rename"
  /\ UNCHANGED <<pdf, folder, inputVars, runVars, rowVars, callVars,
                 countVars, histVars>>

\* the latest successful write of each filename
Record(lw, name, data) ==
  {w \in lw : w.name # name} \cup {[name |-> name, data |-> data]}

\* temp_zip_path.replace(zip_path), and the return
Rename ==
  /\ pc = "w_rename"
  /\ LET tmp == temp_zip_path(zip_path)
     IN disk' = [p \in Paths |->
                   IF p = zip_path THEN disk[tmp]
                   ELSE IF p = tmp THEN NoFile
                   ELSE disk[p]]
  /\ lastWrite' = Record(lastWrite, filename, writestr_data(content))
  /\ pc' = "w_ret"
  /\ UNCHANGED <<pdf, folder, inputVars, runVars, rowVars, callVars,
                 countVars, runs, calls, startEntries, history, aborted>>

\* an I/O error at any statement of replace_in_zip: the with statement
\* closes the temporary archive it had opened, and the exception leaves
WriteError ==
  /\ pc \in WritePcs
  /\ disk' = IF pc \in {"w_copy", "w_close"}
             THEN [disk EXCEPT ![temp_zip_path(zip_path)].closed = TRUE]
             ELSE disk
  /\ pc' = "w_exc"
  /\ UNCHANGED <<pdf, folder, inputVars, runVars, rowVars, callVars,
                 countVars, histVars>>

\* ------------------------------------------------------- the orchestrators

Zeros == [i \in 1..Len(df) |-> 0]

\* the orchestrator returned: its locals are gone, and so is what was
\* recorded about its rows
Return ==
  /\ replace_all' = FALSE
  /\ existing' = {}
  /\ valid' = <<>>
  /\ pos' = 1
  /\ fetched' = Zeros
  /\ converted' = Zeros
  /\ written' = Zeros
  /\ outcome' = [i \in 1..Len(df) |-> "none"]
  /\ stored' = Zeros
  /\ produced' = [i \in 1..Len(df) |-> <<>>]
  /\ startEntries' = <<>>

\* create_markdown_from_column / create_text_from_column up to the loop:
\* _ensure_zip, the filters, the de-duplication, the early return
StartRun(ra) ==
  /\ pc = "idle"
  /\ runs < MaxRuns
  /\ ~aborted
  /\ LET f == ensure_zip_file(disk[zip_path])
         names == ensure_zip_names(disk[zip_path])
         rows == SelectRows(df, job, names, ra)
     IN /\ disk' = [disk EXCEPT ![zip_path] = f]
        /\ IF rows = <<>>
           THEN /\ pc' = "idle"
                /\ history' = Append(history,
                     [replace_all |-> ra, entries |-> f.entries])
                /\ Return
           ELSE /\ pc' = "loop"
                /\ existing' = names
                /\ valid' = rows
                /\ startEntries' = f.entries
                /\ replace_all' = ra
                /\ UNCHANGED <<pos, history, countVars>>
  /\ runs' = runs + 1
  /\ UNCHANGED <<pdf, folder, inputVars, rowVars, callVars, calls, lastWrite,
                 aborted>>

\* the row of this turn of the loop
Row == valid[pos]

\* the loop moves on: progress_bar.update(1)
Advance ==
  /\ pos' = pos + 1
  /\ pc' = IF pos + 1 > Len(valid) THEN "finish" ELSE "loop"

\* convert_pdf_to_*: requests.get, raise_for_status and the write of temp.pdf
\* succeed
FetchOk ==
  /\ pc = "loop"
  /\ pdf' = df[Row].url
  /\ fetched' = [fetched EXCEPT ![Row] = @ + 1]
  /\ pc' = "conv"
  /\ UNCHANGED <<disk, folder, inputVars, runVars, rowVars, callVars,
                 converted, written, outcome, stored, produced, histVars>>

\* convert_pdf_to_*: the download raises (network, timeout, HTTP status,
\* I/O); "" is returned without starting the worker
FetchFail ==
  /\ pc = "loop"
  /\ fetched' = [fetched EXCEPT ![Row] = @ + 1]
  /\ outcome' = [outcome EXCEPT ![Row] = "fetch_failed"]
  /\ markdown' = <<>>
  /\ pc' = "check"
  /\ UNCHANGED <<diskVars, inputVars, runVars, posted, workerRc,
                 callVars, converted, written, stored, produced, histVars>>

\* convert_pdf_to_*: subprocess.run of the worker on temp.pdf, and the
\* returned text
Convert ==
  /\ pc = "conv"
  /\ \E ends \in SubprocessEnds, o \in LibOutcomes :
       LET c == IF job.kind = "md"
                THEN Converter_convert(job.method, environ, o)
                ELSE TextConverter_convert(Lower(job.method), o)
           w == worker_main(c)
           r == subprocess_result(ends, w)
       IN /\ markdown' = r
          /\ posted' = (ends # "oserror" /\ w.posted)
          /\ workerRc' = IF ends = "completed" THEN w.rc ELSE -1
          /\ outcome' = [outcome EXCEPT ![Row] =
                           IF \/ ends # "completed"
                              \/ o.raises
                              \/ w.rc # 0
                              \/ Strip(w.stdout) = <<>>
                           THEN "conv_failed" ELSE "ok"]
  /\ converted' = [converted EXCEPT ![Row] = @ + 1]
  /\ pc' = "check"
  /\ UNCHANGED <<diskVars, inputVars, runVars, callVars, fetched, written,
                 stored, produced, histVars>>

\* what the orchestrator hands to replace_in_zip: markdown.encode("utf-8")
\* in create_markdown_from_column, the str itself in create_text_from_column
Payload(j, text) ==
  IF j.kind = "md"
  THEN [str |-> FALSE, val |-> utf8_encode(text)]
  ELSE [str |-> TRUE, val |-> text]

\* the loop body after the conversion: skip a row without output, otherwise
\* call replace_in_zip
Check ==
  /\ pc = "check"
  /\ IF Strip(markdown) = <<>>
     THEN /\ Advance
          /\ UNCHANGED <<callVars, written, produced>>
     ELSE /\ Call(Filename(df, job, Row), Payload(job, markdown))
          /\ written' = [written EXCEPT ![Row] = @ + 1]
          /\ produced' = [produced EXCEPT ![Row] =
                            writestr_data(Payload(job, markdown))]
          /\ UNCHANGED <<pos, stale>>
  /\ markdown' = <<>>
  /\ posted' = FALSE
  /\ workerRc' = -1
  /\ UNCHANGED <<diskVars, inputVars, replace_all, existing, valid, fetched,
                 converted, outcome, stored, histVars>>

\* a mutant of AfterWrite: the name set is not updated after the write
AfterWrite_no_add ==
  /\ pc = "w_ret"
  /\ stored' = [stored EXCEPT ![Row] = @ + 1]
  /\ Advance
  /\ NoCall
  /\ UNCHANGED <<diskVars, inputVars, replace_all, existing, valid, rowVars,
                 fetched, converted, written, outcome, produced, histVars>>

\* replace_in_zip returned: existing.add(filename)
AfterWrite ==
  /\ pc = "w_ret"
  /\ existing' = existing \cup {filename}
  /\ stored' = [stored EXCEPT ![Row] = @ + 1]
  /\ Advance
  /\ NoCall
  /\ UNCHANGED <<diskVars, inputVars, replace_all, valid, rowVars,
                 fetched, converted, written, outcome, produced, histVars>>

\* a mutant of CatchWrite: the exception of replace_in_zip is not caught and
\* leaves the orchestrator
CatchWrite_reraise ==
  /\ pc = "w_exc"
  /\ aborted' = TRUE
  /\ pc' = "idle"
  /\ NoCall
  /\ Return
  /\ UNCHANGED <<diskVars, inputVars, rowVars, runs, calls, history,
                 lastWrite>>

\* replace_in_zip raised: except Exception logs and the loop goes on
CatchWrite ==
  /\ pc = "w_exc"
  /\ Advance
  /\ NoCall
  /\ UNCHANGED <<diskVars, inputVars, replace_all, existing, valid, rowVars,
                 countVars, histVars>>

\* unzip_to_folder(zip_path, target_dir, overwrite=True): the directory after
extract_all(dir, entries) ==
  {e \in dir : e.name \notin NameSet(entries)}
    \cup {[name |-> n, data |-> ReadEntry(entries, n)] : n \in NameSet(entries)}

\* after the loop: the archive is extracted and the call returns
Finish ==
  /\ pc = "finish"
  /\ folder' = extract_all(folder, disk[zip_path].entries)
  /\ history' = Append(history,
       [replace_all |-> replace_all, entries |-> disk[zip_path].entries])
  /\ pc' = "idle"
  /\ Return
  /\ UNCHANGED <<disk, pdf, inputVars, rowVars, callVars, runs, calls,
                 lastWrite, aborted>>

Next ==
  \/ \E ra \in BOOLEAN : StartRun(ra)
  \/ FetchOk
  \/ FetchFail
  \/ Convert
  \/ Check
  \/ Open
  \/ CopyItem
  \/ WriteNew
  \/ Close
  \/ Rename
  \/ WriteError
  \/ AfterWrite
  \/ CatchWrite
  \/ Finish

Spec == Init /\ [][Next]_vars

\* the batch with its steps taken whenever one is possible: the process is
\* sequential and is not stopped from outside
FairSpec == Spec /\ WF_vars(Next)

\* ------------------------------------------- the archive cache on its own

\* the filenames and contents of direct replace_in_zip calls
ZNames == {<<"a">>, <<"b">>}

ZContents == {[str |-> FALSE, val |-> <<120>>], [str |-> FALSE, val |-> <<121>>]}

ZInit == Start(<<>>, [kind |-> "md", method |-> pymupdf], NoEnv)

\* a caller runs _ensure_zip(zip_path)
ZEnsure ==
  /\ pc = "idle"
  /\ disk' = [disk EXCEPT ![zip_path] = ensure_zip_file(@)]
  /\ existing' = ensure_zip_names(disk[zip_path])
  /\ UNCHANGED <<pdf, folder, inputVars, pc, replace_all, valid, pos, rowVars,
                 callVars, countVars, histVars>>

\* a caller runs replace_in_zip(zip_path, name, data)
ZCall(name, data) ==
  /\ pc = "idle"
  /\ calls < MaxCalls
  /\ Call(name, data)
  /\ stale' = disk[temp_zip_path(zip_path)]
  /\ calls' = calls + 1
  /\ UNCHANGED <<diskVars, inputVars, runVars, rowVars, countVars, runs,
                 startEntries, history, lastWrite, aborted>>

\* replace_in_zip returns to the caller
ZReturn ==
  /\ pc = "w_ret"
  /\ pc' = "idle"
  /\ NoCall
  /\ UNCHANGED <<diskVars, inputVars, runVars, rowVars, countVars, histVars>>

\* replace_in_zip raises to the caller
ZRaise ==
  /\ pc = "w_exc"
  /\ pc' = "idle"
  /\ NoCall
  /\ UNCHANGED <<diskVars, inputVars, runVars, rowVars, countVars, histVars>>

\* the process is stopped inside replace_in_zip: nothing is closed or
\* cleaned up, and a new process may call again
Interrupt ==
  /\ pc \in WritePcs
  /\ pc' = "idle"
  /\ NoCall
  /\ UNCHANGED <<diskVars, inputVars, runVars, rowVars, countVars, histVars>>

ZNext ==
  \/ ZEnsure
  \/ \E name \in ZNames, data \in ZContents : ZCall(name, data)
  \/ Open
  \/ CopyItem
  \/ WriteNew
  \/ Close
  \/ Rename
  \/ WriteError
  \/ ZReturn
  \/ ZRaise
  \/ Interrupt

ZipSpec == ZInit /\ [][ZNext]_vars

\* ------------------------------------------------ the names of the entries

\* naming keys with characters inside and outside the class of safe_filename
NameKeys ==
  {<<"a">>,
   <<"a", " ", "/">>,
   <<"Z", "-", "9", ".", "_">>,
   <<"\\", "1">>}

\* method strings no branch of convert recognizes: they fall back to the
\* default conversion
pdf_2 == <<"p","d","f"," ","2">>

ocr_v2 == <<"o","c","r","/","v","2">>

NameJobs ==
  Jobs \cup {[kind |-> "md", method |-> pdf_2],
             [kind |-> "md", method |-> ocr_v2],
             [kind |-> "txt", method |-> pymupdf],
             [kind |-> "txt", method |-> pdf_2]}

\* one-row tables over the naming keys
NameTables == {<<[name |-> k, url |-> <<"u">>]>> : k \in NameKeys}

NameInit ==
  \E t \in NameTables, j \in NameJobs : \E e \in EnvsOf(j) : Start(t, j, e)

\* the batch over every naming key and method string
NameSpec == NameInit /\ [][Next]_vars

\* ------------------------------------------------------------ properties

Archive == disk[zip_path]

Temp == disk[with_suffix(zip_path, ".tmp.zip")]

NoDuplicates(entries) ==
  \A m, n \in 1..Len(entries) : m # n => entries[m].name # entries[n].name

\* the entries of `entries` other than `name`, in order, then `name`
Rebuilt(entries, name, data) ==
  SelectSeq(entries, LAMBDA e : e.name # name)
    \o <<[name |-> name, data |-> data]>>

\* a step taken inside replace_in_zip: the rename installs the rebuilt
\* archive, any other step leaves the archive as the write found it
AtomicWriteStep ==
  (pc \in WritePcs) =>
    IF pc = "w_rename" /\ pc' = "w_ret"
    THEN Archive' = [exists |-> TRUE, closed |-> TRUE,
                     entries |-> Rebuilt(pre, filename,
                                         writestr_data(content))]
    ELSE Archive' = Archive /\ Archive.entries = pre

\* C1: while replace_in_zip runs, and when it is interrupted or fails at any
\* of its steps, the archive at zip_path is the file it was when the write
\* began; the one step that changes it is the rename, which leaves the
\* complete new state: the other entries, then the new one.
C1_AtomicWrite == [][AtomicWriteStep]_vars

\* a write was interrupted while copying: the partial temporary archive is
\* left behind and the archive still holds its two entries
C1_Witness ==
  /\ pc = "idle"
  /\ Temp.exists /\ ~Temp.closed
  /\ Len(Temp.entries) = 1
  /\ Len(Archive.entries) = 2

\* C10: the archive holds at most one entry per filename, and under each
\* filename the content of the latest successful write to it; a filename
\* written successfully is in the archive.
C10_UniqueLastWrite ==
  Archive.exists =>
    /\ NoDuplicates(Archive.entries)
    /\ \A m \in 1..Len(Archive.entries) : Archive.entries[m] \in lastWrite
    /\ {w.name : w \in lastWrite} = NameSet(Archive.entries)
    /\ \A v, w \in lastWrite : v.name = w.name => v = w

\* a filename already in a two-entry archive was written again with other
\* content, and the write returned
C10_Witness ==
  /\ pc = "w_ret"
  /\ Len(pre) = 2
  /\ \E m \in 1..Len(pre) :
       pre[m].name = filename /\ pre[m].data # writestr_data(content)

\* ---------------------------------------------------- properties of a batch

Rows == 1..Len(df)

\* the row has a naming key, so a target name is derived from it
Named(i) == df[i].name # NaN

Target(i) == Filename(df, job, i)

\* the row has a naming key and a non-empty URL
IsValid(i) == Named(i) /\ df[i].url # NaN /\ df[i].url # <<>>

\* no valid row before row i maps to its target name
FirstOfName(i) ==
  \A k \in 1..(i - 1) : IsValid(k) => Target(k) # Target(i)

\* what the rows mapping to `name` add up to, over rows 1..n
RECURSIVE PerName(_, _, _)
PerName(count, name, n) ==
  IF n = 0 THEN 0
  ELSE PerName(count, name, n - 1)
         + (IF Named(n) /\ Target(n) = name THEN count[n] ELSE 0)

InRun == pc # "idle"

\* C3: in a batch with replace_all=False, a row whose target name was in the
\* archive when the batch loaded it is never downloaded or converted, nothing
\* is written under that name, and the entry keeps its content.
C3_CacheHitSkip ==
  (InRun /\ ~replace_all) =>
    \A i \in Rows :
      (Named(i) /\ Target(i) \in NameSet(startEntries)) =>
        /\ fetched[i] = 0 /\ converted[i] = 0 /\ written[i] = 0
        /\ Target(i) \in NameSet(Archive.entries)
        /\ ReadEntry(Archive.entries, Target(i))
             = ReadEntry(startEntries, Target(i))

\* a batch without replace_all is through its loop: one row was a cache hit
\* and another row's output was stored
C3_Witness ==
  /\ pc = "finish" /\ ~replace_all
  /\ \E i, k \in Rows :
       /\ IsValid(i) /\ Target(i) \in NameSet(startEntries)
       /\ stored[k] = 1

\* C6: in one batch each target name is downloaded, converted and written at
\* most once however many rows map to it, and the row used is the first row
\* in input order that passed the validity filter with that name.
C6_Dedup ==
  \A i \in Rows :
    Named(i) =>
      /\ PerName(fetched, Target(i), Len(df)) <= 1
      /\ PerName(converted, Target(i), Len(df)) <= 1
      /\ PerName(written, Target(i), Len(df)) <= 1
      /\ (fetched[i] > 0 \/ converted[i] > 0 \/ written[i] > 0) =>
           (IsValid(i) /\ FirstOfName(i))

\* two valid rows with different naming keys map to one target name; the
\* first was downloaded, converted and stored, the second was left alone
C6_Witness ==
  /\ pc = "finish"
  /\ \E i, k \in Rows :
       /\ i < k /\ IsValid(i) /\ IsValid(k)
       /\ df[i].name # df[k].name /\ Target(i) = Target(k)
       /\ stored[i] = 1 /\ fetched[k] = 0

\* C7 (as claimed): a row whose URL or naming key is missing or empty is
\* never downloaded or converted and nothing is written for it.
C7_InvalidRowsDiscarded ==
  \A i \in Rows :
    (df[i].url \in {NaN, <<>>} \/ df[i].name \in {NaN, <<>>}) =>
      fetched[i] = 0 /\ converted[i] = 0 /\ written[i] = 0

\* no row of the table has an empty naming key: the statements refuted below
\* are taken on such tables, where every row the code processes is a row the
\* claims count as valid
KeysNonEmpty == \A i \in Rows : df[i].name # <<>>

\* the rows a batch has to process: valid, first of their target name, and
\* without an entry unless replace_all
Selected(i) ==
  /\ IsValid(i)
  /\ FirstOfName(i)
  /\ replace_all \/ Target(i) \notin NameSet(startEntries)

\* the entry under `name` is as the batch found it: absent, or the same bytes
SameEntry(name) ==
  IF name \in NameSet(startEntries)
  THEN /\ name \in NameSet(Archive.entries)
       /\ ReadEntry(Archive.entries, name) = ReadEntry(startEntries, name)
  ELSE name \notin NameSet(Archive.entries)

IsPrefix(a, b) == Len(a) <= Len(b) /\ SubSeq(b, 1, Len(a)) = a

\* two consecutive finished batches, both with replace_all=False
TwiceWithoutReplace(k) ==
  /\ k \in 2..Len(history)
  /\ ~history[k - 1].replace_all
  /\ ~history[k].replace_all

\* C2 (as claimed): after the second of two batches run with
\* replace_all=False the archive is identical to the one the first left.
C2_SecondRunIdentical ==
  KeysNonEmpty =>
    \A k \in 1..Len(history) :
      TwiceWithoutReplace(k) => history[k].entries = history[k - 1].entries

\* C2 (amended): the second of two batches run with replace_all=False keeps
\* every entry the first left, in place and with the same content, and adds
\* no duplicate; it can add entries only for valid rows that had none after
\* the first batch, and when every valid row had its entry the two archives
\* are identical.
C2_Idempotent ==
  \A k \in 1..Len(history) :
    TwiceWithoutReplace(k) =>
      LET first == history[k - 1].entries
          second == history[k].entries
      IN /\ IsPrefix(first, second)
         /\ NoDuplicates(second)
         /\ NameSet(second) \ NameSet(first)
              \subseteq {Target(i) : i \in {r \in Rows : IsValid(r)}}
         /\ (\A i \in Rows : IsValid(i) => Target(i) \in NameSet(first))
              => second = first

\* two batches without replace_all have finished: the first stored two
\* entries and the second left the archive identical
C2_Witness ==
  /\ Len(history) = 2
  /\ TwiceWithoutReplace(2)
  /\ Len(history[1].entries) = 2
  /\ history[2].entries = history[1].entries

\* C4 (as claimed): in a batch with replace_all=True every valid
\* de-duplicated row is downloaded and converted, and an entry that existed
\* under its name holds after the loop the content this batch produced.
C4_AlwaysOverwritten ==
  (pc = "finish" /\ replace_all /\ KeysNonEmpty) =>
    \A i \in Rows :
      (IsValid(i) /\ FirstOfName(i) /\ Target(i) \in NameSet(startEntries)) =>
        /\ fetched[i] = 1 /\ converted[i] = 1
        /\ stored[i] = 1
        /\ ReadEntry(Archive.entries, Target(i)) = produced[i]

\* C4 (amended): in a batch with replace_all=True every valid de-duplicated
\* row is downloaded even when its target name is in the archive, and
\* converted when the download succeeded; when the conversion gave non-empty
\* output and the write returned, the entry holds the content this batch
\* produced, otherwise the entry is as the batch found it.
C4_ForceReplace ==
  (pc = "finish" /\ replace_all) =>
    \A i \in Rows :
      (IsValid(i) /\ FirstOfName(i)) =>
        /\ fetched[i] = 1
        /\ outcome[i] # "fetch_failed" => converted[i] = 1
        /\ outcome[i] = "ok" => written[i] = 1
        /\ IF stored[i] = 1
           THEN /\ Target(i) \in NameSet(Archive.entries)
                /\ ReadEntry(Archive.entries, Target(i)) = produced[i]
           ELSE SameEntry(Target(i))

\* a batch with replace_all is through its loop: an entry that existed was
\* rewritten with other content
C4_Witness ==
  /\ pc = "finish" /\ replace_all
  /\ \E i \in Rows :
       /\ Target(i) \in NameSet(startEntries)
       /\ stored[i] = 1
       /\ ReadEntry(startEntries, Target(i)) # produced[i]

Failed(i) == outcome[i] \in {"fetch_failed", "conv_failed"}

\* a batch with replace_all=False run on the archive as it is would process
\* row i
Retried(i) ==
  LET again == SelectRows(df, job, NameSet(Archive.entries), FALSE)
  IN \E p \in 1..Len(again) : again[p] = i

\* what holds of every failed row: no worker after a failed download, no
\* write, the entry under its name as the batch found it
FailedRowLeavesNoTrace(i) ==
  /\ outcome[i] = "fetch_failed" => converted[i] = 0
  /\ written[i] = 0
  /\ SameEntry(Target(i))

\* C5 (as claimed): a row whose download or conversion failed, or whose
\* output was empty, gets no worker after a failed download and no write, its
\* entry is not altered, and a later batch with replace_all=False selects it
\* again.
C5_FailedRowsRetried ==
  (InRun /\ KeysNonEmpty) =>
    \A i \in Rows : Failed(i) => FailedRowLeavesNoTrace(i) /\ Retried(i)

\* C5 (amended): ... and a later batch with replace_all=False selects it
\* again whenever the archive holds no entry under its target name, which is
\* always so when the failing batch itself ran with replace_all=False.
C5_FailedRowsRetryable ==
  InRun =>
    \A i \in Rows :
      Failed(i) =>
        /\ FailedRowLeavesNoTrace(i)
        /\ Target(i) \notin NameSet(Archive.entries) => Retried(i)
        /\ ~replace_all => Target(i) \notin NameSet(Archive.entries)

\* a batch is through its loop: one row's download failed, another row's
\* conversion failed, and neither has an entry
C5_Witness ==
  /\ pc = "finish"
  /\ \E i, k \in Rows :
       /\ outcome[i] = "fetch_failed"
       /\ outcome[k] = "conv_failed" /\ converted[k] = 1
       /\ Retried(i) /\ Retried(k)

\* docling-serve is the backend and its base URL or API key is not set
ConfigMissing ==
  /\ job.kind = "md"
  /\ Lower(job.method) = docling_serve
  /\ ~environ.base_url \/ ~environ.api_key

\* C9 (as claimed): with docling-serve selected and not configured, the
\* conversion raises before any HTTP request is sent and the error aborts
\* the batch instead of becoming an empty result of the row.
C9_ConfigErrorAborts ==
  (ConfigMissing /\ KeysNonEmpty /\ pc = "check" /\ converted[Row] = 1) =>
    ~posted /\ aborted

\* C9 (amended): with docling-serve selected and not configured, the
\* conversion raises before any HTTP request is sent; the worker ends
\* without exit status 0, the row's result is empty, nothing is written, and
\* the batch goes on to the next row: no per-row error, this one included,
\* aborts the batch.
C9_ConfigErrorAbsorbed ==
  /\ (ConfigMissing /\ pc = "check" /\ converted[Row] = 1) =>
       ~posted /\ workerRc # 0 /\ markdown = <<>> /\ ~aborted
  /\ (ConfigMissing /\ pc = "finish") =>
       /\ ~aborted
       /\ Archive.entries = startEntries
       /\ \A i \in Rows :
            written[i] = 0 /\ fetched[i] = (IF Selected(i) THEN 1 ELSE 0)

\* the API key is not set and the worker of the first row exited with
\* status 1: the batch is at its second row, whose worker did the same
C9_Witness ==
  /\ ConfigMissing /\ environ.base_url
  /\ pc = "check" /\ pos = 2
  /\ converted[Row] = 1 /\ workerRc = 1

\* C8: whatever each row's download, conversion and archive write do, a
\* started batch comes to its end without an exception leaving it, and when
\* the loop is over every row it had to process was attempted exactly once
\* and no other row was attempted.
C8_BatchCompletes ==
  /\ InRun ~> (pc = "idle")
  /\ [](~aborted)
  /\ [](pc = "finish" =>
          \A i \in Rows : fetched[i] = (IF Selected(i) THEN 1 ELSE 0))

\* the loop is over: the first row's archive write failed, the second row was
\* processed after it and stored
C8_Witness ==
  /\ pc = "finish"
  /\ Len(valid) = 2
  /\ written[valid[1]] = 1 /\ stored[valid[1]] = 0
  /\ stored[valid[2]] = 1

\* the characters of the class [a-zA-Z0-9_.-]
SafeChars == Letters \cup Digits \cup {"_", ".", "-"}

Extension == IF job.kind = "md" THEN <<".", "m", "d">> ELSE <<".", "t", "x", "t">>

\* C11 (as claimed): every entry name one of the orchestrators writes is the
\* sanitized naming key of a row, then "_", the method string and the
\* extension, and all of its characters are in [a-zA-Z0-9_.-].
C11_EntryNameForm ==
  \A m \in 1..Len(Archive.entries) :
    LET n == Archive.entries[m].name
    IN /\ \E i \in Rows :
            /\ Named(i)
            /\ n = safe_filename(df[i].name) \o <<"_">> \o job.method
                     \o Extension
       /\ \A c \in 1..Len(n) : n[c] \in SafeChars

\* C12: when replace_in_zip returns, every entry the archive held under
\* another name is still there with the same content, the only name that can
\* be new is the one written, which holds the written content, and the
\* archive has no entry besides these.
C12_WriteFrame ==
  pc = "w_ret" =>
    /\ \A n \in NameSet(pre) \ {filename} :
         /\ n \in NameSet(Archive.entries)
         /\ ReadEntry(Archive.entries, n) = ReadEntry(pre, n)
    /\ NameSet(Archive.entries) = NameSet(pre) \cup {filename}
    /\ ReadEntry(Archive.entries, filename) = writestr_data(content)
    /\ Len(Archive.entries) = Cardinality(NameSet(pre) \cup {filename})

\* a write of a new filename to a one-entry archive returned: the archive
\* holds the entry it had and the new one
C12_Witness ==
  /\ pc = "w_ret"
  /\ Len(pre) = 1
  /\ pre[1].name # filename
  /\ Len(Archive.entries) = 2
  /\ Archive.entries[1] = pre[1]

\* no write is in flight: the batch is between two rows, downloading or
\* converting, or through its loop
NoWriteInFlight == pc \in {"loop", "conv", "check", "finish"}

\* the archive write of row i raised in this batch
WriteRaised(i) == NoWriteInFlight /\ written[i] = 1 /\ stored[i] = 0

\* a batch run next on the archive as it is, with the given replace_all,
\* would process row i
Eligible(i, ra) ==
  LET again == SelectRows(df, job, NameSet(Archive.entries), ra)
  IN \E p \in 1..Len(again) : again[p] = i

\* the name set against the archive: equal while no rename has happened
\* since the last update, short of the written name between the rename and
\* existing.add
NameSetMirrors ==
  /\ (NoWriteInFlight \/ pc \in WritePcs \/ pc = "w_exc") =>
       existing = NameSet(Archive.entries)
  /\ pc = "w_ret" =>
       /\ existing = NameSet(pre)
       /\ NameSet(Archive.entries) = existing \cup {filename}

\* a row whose write raised: the batch goes on, the name was not added, and
\* the entry under it is as the batch found it
WriteRaisedLeavesNoTrace(i) ==
  /\ ~aborted
  /\ Target(i) \in existing <=> Target(i) \in NameSet(startEntries)
  /\ SameEntry(Target(i))

\* the steps of a batch on the name set: only the return of replace_in_zip
\* adds a name, the written one; the handler of a raised write leaves the set
\* and the archive as the write found them and goes on with the loop
NameSetStep ==
  /\ (pc # "idle" /\ pc' # "idle" /\ existing' # existing) =>
       pc = "w_ret" /\ existing' = existing \cup {filename}
  /\ pc = "w_exc" =>
       /\ existing' = existing
       /\ Archive' = Archive /\ Archive.entries = pre
       /\ pc' \in {"loop", "finish"}

\* C13 (as claimed): the name set equals the archive's names between row
\* steps, a name is added only after its write returned, and a row whose
\* write raised leaves set and archive unchanged and is selected by the next
\* batch, whatever its replace_all.
C13_NameSetMirrorsRetried ==
  /\ [](NameSetMirrors)
  /\ [][NameSetStep]_vars
  /\ [](KeysNonEmpty =>
          \A i \in Rows :
            WriteRaised(i) =>
              /\ WriteRaisedLeavesNoTrace(i)
              /\ \A ra \in BOOLEAN : Eligible(i, ra))

\* C13 (amended): ... a row whose write raised leaves set and archive
\* unchanged; the next batch selects it when run with the same replace_all,
\* and when run with replace_all=False exactly when the archive holds no
\* entry under its target name, which is always so when the failing batch
\* ran with replace_all=False.
C13_NameSetMirrors ==
  /\ [](NameSetMirrors)
  /\ [][NameSetStep]_vars
  /\ [](\A i \in Rows :
          WriteRaised(i) =>
            /\ WriteRaisedLeavesNoTrace(i)
            /\ Eligible(i, replace_all)
            /\ Eligible(i, FALSE) <=> Target(i) \notin NameSet(Archive.entries)
            /\ ~replace_all => Target(i) \notin NameSet(Archive.entries))

\* a batch with replace_all moved on after the write of a row raised whose
\* name was already in the archive, and the write of another row returned
C13_Witness ==
  /\ NoWriteInFlight /\ replace_all
  /\ \E i, k \in Rows :
       /\ WriteRaised(i) /\ Target(i) \in NameSet(startEntries)
       /\ stored[k] = 1 /\ Target(k) \in existing

\* C14: a replace_in_zip call that finds a temporary archive left by an
\* earlier write, whatever it holds, keeps the archive as it was up to the
\* rename and returns with exactly the prior entries other than the written
\* name, then the written entry; the temporary archive is gone, and nothing
\* the stale file held is in the archive unless the archive or the call
\* supplied it.
C14_StaleTempHarmless ==
  stale.exists =>
    /\ (pc \in WritePcs \/ pc = "w_exc") => Archive.entries = pre
    /\ pc = "w_ret" =>
         /\ Archive.entries = Rebuilt(pre, filename, writestr_data(content))
         /\ ~Temp.exists
         /\ \A m \in 1..Len(stale.entries) :
              (\E n \in 1..Len(Archive.entries) :
                 Archive.entries[n] = stale.entries[m]) =>
                \/ \E n \in 1..Len(pre) : pre[n] = stale.entries[m]
                \/ stale.entries[m] =
                     [name |-> filename, data |-> writestr_data(content)]

\* an interrupted write left an unclosed temporary archive holding an entry
\* that never reached the archive; a later write of another name returned
C14_Witness ==
  /\ pc = "w_ret"
  /\ stale.exists /\ ~stale.closed
  /\ \E m \in 1..Len(stale.entries) :
       /\ stale.entries[m].name # filename
       /\ stale.entries[m].name \notin NameSet(Archive.entries)

====
